---- MODULE Spec2Model ----
(***************************************************************************)
(* A model of tagfix.py, the batch audio metadata editor.                  *)
(*                                                                         *)
(* Three specifications share the variables below:                         *)
(*   SpecTag    the tag translator: get_tag_value / set_tag_value applied  *)
(*              to one loaded handle;                                      *)
(*   SpecCover  the embedding loop of process_album_cover;                 *)
(*   Spec       one pass of main_loop: find_audio_files, setup_menu and    *)
(*              edit_audio_files.                                          *)
(*                                                                         *)
(* Tag values are sequences of one-character strings, so that int(),       *)
(* str() and the ID3 time stamp frame can be computed as the code and the  *)
(* tag library compute them.  The tag library (mutagen) is modelled by the *)
(* behaviour of the calls the program makes on it.                         *)
(***************************************************************************)
EXTENDS Integers, Sequences, FiniteSets, TLC

VARIABLES
    disk,           \* the directory: entry name -> [ext, ok, audio], the file as stored
    audio_files,    \* the sorted list of entry names find_audio_files returned
    selected_tags,  \* setup_menu's first result
    global_values,  \* setup_menu's second result: a sequence of <<tag, value>>
    per_file_tags,  \* setup_menu's third result
    pc,             \* where the program is
    idx,            \* position in audio_files of the loop that is running
    tagIdx,         \* position in per_file_tags of the prompt loop
    audio,          \* the handle in memory
    modified,       \* edit_audio_files' flag of the current file
    stats,          \* edit_audio_files' counters
    exc,            \* the exception that ended the program, or "none"
    last,           \* what the last step did (observation only)
    hist            \* per entry name, what the per-file pass did to it (observation only)

vars == <<disk, audio_files, selected_tags, global_values, per_file_tags, pc, idx,
          tagIdx, audio, modified, stats, exc, last, hist>>

---------------------------------------------------------------------------
(* Bounds of the model. *)

\* Number of set_tag_value calls made on one handle under SpecTag.
MaxOps == 2
\* Number of entries of the directory under Spec that have a supported
\* extension (the directory also holds one file that has none).
DirSize == 2
\* Number of entries of the directory under SpecCover.
CoverDirSize == 2
\* Number of pictures a file may already hold under SpecCover.
MaxPics == 2

\* The characters tag values are made of: a letter (the one that also means
\* "quit" at the action prompt) and a digit.
Chars == {"q", "7"}
\* The tag values tried: a text, a number, and a number followed by text.
Values == {<<c>> : c \in Chars} \cup {<<"7", "q">>}
\* What the user types at a prompt for a value: nothing, or one character.
Typed == {<<>>} \cup {<<c>> : c \in Chars}

---------------------------------------------------------------------------
(* Settings. *)

AVAILABLE_TAGS ==
    <<"cover", "artist", "albumartist", "album", "title", "genre", "date",
      "tracknumber", "discnumber", "comment">>

CanonicalTags == {AVAILABLE_TAGS[i] : i \in DOMAIN AVAILABLE_TAGS}

GLOBAL_TAGS == {"artist", "albumartist", "album", "date", "genre"}

SUPPORTED_EXTENSIONS == {".flac", ".mp3", ".m4a", ".ogg", ".opus", ".wma", ".wav"}

ID3_TAG_MAP ==
    [t \in CanonicalTags \ {"cover"} |->
        CASE t = "title" -> "TIT2"
          [] t = "artist" -> "TPE1"
          [] t = "album" -> "TALB"
          [] t = "albumartist" -> "TPE2"
          [] t = "genre" -> "TCON"
          [] t = "date" -> "TDRC"
          [] t = "tracknumber" -> "TRCK"
          [] t = "discnumber" -> "TPOS"
          [] t = "comment" -> "COMM"]

MP4_TAG_MAP ==
    [t \in CanonicalTags \ {"cover"} |->
        CASE t = "title" -> "@nam"
          [] t = "artist" -> "@ART"
          [] t = "album" -> "@alb"
          [] t = "albumartist" -> "aART"
          [] t = "genre" -> "@gen"
          [] t = "date" -> "@day"
          [] t = "tracknumber" -> "trkn"
          [] t = "discnumber" -> "disk"
          [] t = "comment" -> "@cmt"]

NumericTags == {"tracknumber", "discnumber"}

---------------------------------------------------------------------------
(* Strings and numbers. *)

\* Python's None as a returned value: no string of Chars equals it.
None == <<"None">>

Digits == <<"0", "1", "2", "3", "4", "5", "6", "7", "8", "9">>

IsDigit(c) == \E d \in DOMAIN Digits : Digits[d] = c

DigitVal(c) == (CHOOSE d \in DOMAIN Digits : Digits[d] = c) - 1

\* int(value) succeeds: over Chars (no sign, blank or underscore) a literal is
\* a non-empty run of digits.
IsIntLiteral(s) == Len(s) > 0 /\ \A i \in DOMAIN s : IsDigit(s[i])

RECURSIVE ParseInt(_)
ParseInt(s) ==
    IF s = <<>> THEN 0
    ELSE 10 * ParseInt(SubSeq(s, 1, Len(s) - 1)) + DigitVal(s[Len(s)])

\* str(n) of a natural number.
RECURSIVE StrInt(_)
StrInt(n) ==
    IF n < 10 THEN <<Digits[n + 1]>>
    ELSE Append(StrInt(n \div 10), Digits[(n % 10) + 1])

RECURSIVE PadLeft(_, _)
PadLeft(s, w) == IF Len(s) >= w THEN s ELSE PadLeft(<<"0">> \o s, w)

\* The ID3 time stamp of a TDRC frame.  Its text is split at - T : / . and
\* blanks into year, month, ...; a part that int() rejects is None.  Chars holds
\* no separator, so the whole text is the year part.
ID3TimeStamp(text) ==
    [year |-> IF IsIntLiteral(text) THEN ParseInt(text) ELSE -1]

\* str() of a time stamp: the parts up to the first None, the year as %04d.
TimeStampText(ts) == IF ts.year = -1 THEN <<>> ELSE PadLeft(StrInt(ts.year), 4)

---------------------------------------------------------------------------
(* Handles.  audio.tags is [present, map]: present = FALSE is tags = None. *)

EmptyMap == [k \in {} |-> <<>>]

NoTags == [present |-> FALSE, map |-> EmptyMap]

EmptyTags == [present |-> TRUE, map |-> EmptyMap]

\* What load_audio_file returns for a file it cannot load.
NoneAudio == [isNone |-> TRUE, tags |-> NoTags, pictures |-> <<>>]

Handle(tags, pictures) == [isNone |-> FALSE, tags |-> tags, pictures |-> pictures]

Id3Exts == {".mp3", ".wav"}

\* The handle kinds whose tags attribute is never None once loaded.
AlwaysTagged == {".ogg", ".opus", ".wma"}

\* audio.add_tags().
AddTags(a) == [a EXCEPT !.tags = EmptyTags]

\* audio.tags[key] = stored.
StoreTag(a, key, stored) ==
    [a EXCEPT !.tags.map =
        [k \in (DOMAIN a.tags.map) \cup {key} |->
            IF k = key THEN stored ELSE a.tags.map[k]]]

---------------------------------------------------------------------------
(* The tag translator. *)

\* The frame object tag_class(encoding=3, text=value) builds.
Id3Frame(tag, value) ==
    CASE tag = "comment" -> [text |-> <<value>>, lang |-> "eng", desc |-> <<>>]
      [] tag = "date" -> [text |-> <<ID3TimeStamp(value)>>]
      [] OTHER -> [text |-> <<value>>]

\* str(frame.text[0]).
Id3FrameText(key, frame) ==
    IF key = "TDRC" THEN TimeStampText(frame.text[1]) ELSE frame.text[1]

\* get_tag_value as it would be if a read created the missing ID3 tag
\* container the way set_tag_value does.
get_tag_value_AddsTags(a, tag, ext) ==
    LET ret(v) == [value |-> v, audio |-> a] IN
    IF ext \in Id3Exts THEN
        IF a.isNone THEN ret(None)
        ELSE IF ~a.tags.present THEN [value |-> None, audio |-> AddTags(a)]
        ELSE IF tag \in DOMAIN ID3_TAG_MAP /\ ID3_TAG_MAP[tag] \in DOMAIN a.tags.map
        THEN ret(Id3FrameText(ID3_TAG_MAP[tag], a.tags.map[ID3_TAG_MAP[tag]]))
        ELSE ret(None)
    ELSE IF ext = ".m4a" THEN
        \* audio.tags of None, or "in" on tags = None, raises: swallowed
        IF a.isNone \/ ~a.tags.present THEN ret(None)
        ELSE IF tag \in DOMAIN MP4_TAG_MAP /\ MP4_TAG_MAP[tag] \in DOMAIN a.tags.map
        THEN LET value == a.tags.map[MP4_TAG_MAP[tag]] IN
             IF tag \in NumericTags
             THEN ret(IF value # <<>> /\ value[1] # <<>> THEN StrInt(value[1][1]) ELSE None)
             ELSE ret(IF value # <<>> THEN value[1] ELSE None)
        ELSE ret(None)
    ELSE
        \* "tag in audio" on None raises; a handle with tags = None holds no key
        IF a.isNone \/ ~a.tags.present THEN ret(None)
        ELSE IF tag \in DOMAIN a.tags.map
        THEN ret(IF a.tags.map[tag] # <<>> THEN a.tags.map[tag][1] ELSE None)
        ELSE ret(None)

\* get_tag_value: the value returned and the handle as the call leaves it.
get_tag_value(a, tag, ext) ==
    LET ret(v) == [value |-> v, audio |-> a] IN
    IF ext \in Id3Exts THEN
        IF a.isNone \/ ~a.tags.present THEN ret(None)
        ELSE IF tag \in DOMAIN ID3_TAG_MAP /\ ID3_TAG_MAP[tag] \in DOMAIN a.tags.map
        THEN ret(Id3FrameText(ID3_TAG_MAP[tag], a.tags.map[ID3_TAG_MAP[tag]]))
        ELSE ret(None)
    ELSE IF ext = ".m4a" THEN
        \* audio.tags of None, or "in" on tags = None, raises: swallowed
        IF a.isNone \/ ~a.tags.present THEN ret(None)
        ELSE IF tag \in DOMAIN MP4_TAG_MAP /\ MP4_TAG_MAP[tag] \in DOMAIN a.tags.map
        THEN LET value == a.tags.map[MP4_TAG_MAP[tag]] IN
             IF tag \in NumericTags
             THEN ret(IF value # <<>> /\ value[1] # <<>> THEN StrInt(value[1][1]) ELSE None)
             ELSE ret(IF value # <<>> THEN value[1] ELSE None)
        ELSE ret(None)
    ELSE
        \* "tag in audio" on None raises; a handle with tags = None holds no key
        IF a.isNone \/ ~a.tags.present THEN ret(None)
        ELSE IF tag \in DOMAIN a.tags.map
        THEN ret(IF a.tags.map[tag] # <<>> THEN a.tags.map[tag][1] ELSE None)
        ELSE ret(None)

\* set_tag_value as it would be if a value int() rejects were stored as 0.
set_tag_value_ZeroOnBadInt(a, tag, value, ext) ==
    LET ok(h) == [ret |-> TRUE, audio |-> h]
        failed(h) == [ret |-> FALSE, audio |-> h]
    IN
    IF ext \in Id3Exts THEN
        \* hasattr(None, 'tags') is false and None.add_tags() raises
        IF a.isNone THEN failed(a)
        ELSE LET h == IF a.tags.present THEN a ELSE AddTags(a) IN
             IF tag \in DOMAIN ID3_TAG_MAP
             THEN ok(StoreTag(h, ID3_TAG_MAP[tag], Id3Frame(tag, value)))
             ELSE ok(h)
    ELSE IF ext = ".m4a" THEN
        IF tag \in DOMAIN MP4_TAG_MAP THEN
            IF tag \in NumericTags THEN
                IF a.isNone \/ ~a.tags.present THEN failed(a)
                ELSE ok(StoreTag(a, MP4_TAG_MAP[tag],
                        <<(<<IF IsIntLiteral(value) THEN ParseInt(value) ELSE 0, 0>>)>>))
            ELSE
                \* item assignment on tags = None raises
                IF a.isNone \/ ~a.tags.present THEN failed(a)
                ELSE ok(StoreTag(a, MP4_TAG_MAP[tag], <<value>>))
        ELSE ok(a)
    ELSE
        IF a.isNone THEN failed(a)
        ELSE LET h == IF a.tags.present THEN a ELSE AddTags(a) IN
             ok(StoreTag(h, tag, <<value>>))

\* set_tag_value: the boolean returned and the handle as the call leaves it.
set_tag_value(a, tag, value, ext) ==
    LET ok(h) == [ret |-> TRUE, audio |-> h]
        failed(h) == [ret |-> FALSE, audio |-> h]
    IN
    IF ext \in Id3Exts THEN
        \* hasattr(None, 'tags') is false and None.add_tags() raises
        IF a.isNone THEN failed(a)
        ELSE LET h == IF a.tags.present THEN a ELSE AddTags(a) IN
             IF tag \in DOMAIN ID3_TAG_MAP
             THEN ok(StoreTag(h, ID3_TAG_MAP[tag], Id3Frame(tag, value)))
             ELSE ok(h)
    ELSE IF ext = ".m4a" THEN
        IF tag \in DOMAIN MP4_TAG_MAP THEN
            IF tag \in NumericTags THEN
                \* int(value) is evaluated before the item assignment
                IF ~IsIntLiteral(value) THEN failed(a)
                ELSE IF a.isNone \/ ~a.tags.present THEN failed(a)
                ELSE ok(StoreTag(a, MP4_TAG_MAP[tag], <<(<<ParseInt(value), 0>>)>>))
            ELSE
                \* item assignment on tags = None raises
                IF a.isNone \/ ~a.tags.present THEN failed(a)
                ELSE ok(StoreTag(a, MP4_TAG_MAP[tag], <<value>>))
        ELSE ok(a)
    ELSE
        IF a.isNone THEN failed(a)
        ELSE LET h == IF a.tags.present THEN a ELSE AddTags(a) IN
             ok(StoreTag(h, tag, <<value>>))

---------------------------------------------------------------------------
(* Files. *)

\* What a file that holds no tag can load as: tags = None where the format
\* allows a file without a tag block, an empty tag block otherwise.
FreshHandles(ext) ==
    IF ext \in AlwaysTagged THEN {Handle(EmptyTags, <<>>)}
    ELSE {Handle(NoTags, <<>>), Handle(EmptyTags, <<>>)}

File(ext, ok, a) == [ext |-> ext, ok |-> ok, audio |-> a]

\* load_audio_file: None for an extension it does not know and for a file the
\* library cannot parse.
load_audio_file(f) ==
    IF f.ext \in SUPPORTED_EXTENSIONS /\ f.ok THEN f.audio ELSE NoneAudio

\* audio.save(): writes the handle's tags; a handle whose tags are None writes
\* nothing.
SaveTo(f, a) == IF a.tags.present THEN [f EXCEPT !.audio = a] ELSE f

NoLast == [op |-> "none", tag |-> "", value |-> <<>>, ret |-> FALSE, got |-> None]

\* Nothing was done to a file yet: no outcome, no value typed for it, no
\* set_tag_value result.
NoHist == [outcome |-> "none", typed |-> <<>>, rets |-> <<>>]

---------------------------------------------------------------------------
(* SpecTag: get_tag_value and set_tag_value on one handle loaded from a file *)
(* that holds no tag.  idx counts the set_tag_value calls made.              *)

TagFile == 1

InitTag ==
    /\ \E ext \in SUPPORTED_EXTENSIONS : \E h \in FreshHandles(ext) :
          /\ disk = [n \in {TagFile} |-> File(ext, TRUE, h)]
          /\ audio = h
    /\ audio_files = <<TagFile>>
    /\ selected_tags = <<>>
    /\ global_values = <<>>
    /\ per_file_tags = <<>>
    /\ pc = "tag"
    /\ idx = 0
    /\ tagIdx = 0
    /\ modified = FALSE
    /\ stats = [processed |-> 0, skipped |-> 0, failed |-> 0]
    /\ exc = "none"
    /\ last = NoLast
    /\ hist = [n \in {TagFile} |-> NoHist]

SetTag(tag, value) ==
    /\ pc = "tag"
    /\ idx < MaxOps
    /\ LET r == set_tag_value(audio, tag, value, disk[TagFile].ext) IN
          /\ audio' = r.audio
          /\ last' = [op |-> "set", tag |-> tag, value |-> value, ret |-> r.ret,
                      got |-> None]
    /\ idx' = idx + 1
    /\ UNCHANGED <<disk, audio_files, selected_tags, global_values, per_file_tags,
                   pc, tagIdx, modified, stats, exc, hist>>

GetTag(tag) ==
    /\ pc = "tag"
    /\ LET r == get_tag_value(audio, tag, disk[TagFile].ext) IN
          /\ audio' = r.audio
          /\ last' = [op |-> "get", tag |-> "", value |-> <<>>, ret |-> FALSE,
                      got |-> r.value]
    /\ UNCHANGED <<disk, audio_files, selected_tags, global_values, per_file_tags,
                   pc, idx, tagIdx, modified, stats, exc, hist>>

NextTag ==
    \/ \E tag \in CanonicalTags, value \in Values : SetTag(tag, value)
    \/ \E tag \in CanonicalTags : GetTag(tag)

SpecTag == InitTag /\ [][NextTag]_vars

---------------------------------------------------------------------------
(* The directory. *)

\* The names of S in ascending order: sorted().
RECURSIVE SortedSeq(_)
SortedSeq(S) ==
    IF S = {} THEN <<>>
    ELSE LET m == CHOOSE x \in S : \A y \in S : x <= y IN <<m>> \o SortedSeq(S \ {m})

\* find_audio_files on an existing directory d: the entries with a supported
\* extension, sorted by path.
find_audio_files(d) ==
    SortedSeq({n \in DOMAIN d : d[n].ext \in SUPPORTED_EXTENSIONS})

---------------------------------------------------------------------------
(* SpecCover: process_album_cover from the confirmation prompt on. *)

\* A picture's description: its text and the blanks that follow it.
Desc(text) == [text |-> text, blanks |-> 0]

\* The picture the embedding loop builds.
CoverPicture == [type |-> 3, mime |-> "image/jpeg", desc |-> Desc("Cover")]

\* MP4Cover(img_data, imageformat=FORMAT_JPEG): an mp4 cover has no type and
\* no description.
Mp4CoverPicture == [imageformat |-> "JPEG"]

\* Pictures a file may hold before the run.
OldPictures ==
    <<[type |-> 3, mime |-> "image/png", desc |-> Desc("Front")],
      [type |-> 4, mime |-> "image/jpeg", desc |-> Desc("Back")],
      [type |-> 3, mime |-> "image/jpeg", desc |-> Desc("Cover")]>>

\* The picture lists of at most MaxPics of OldPictures (no description twice:
\* an ID3 tag keys its APIC frames by description).
OldPictureLists ==
    {SortedSeq(S) : S \in {T \in SUBSET (DOMAIN OldPictures) : Cardinality(T) <= MaxPics}}

PicturesAt(ixs) == [i \in DOMAIN ixs |-> OldPictures[ixs[i]]]

\* The handles a file of the given kind may load as, pictures included.
StoredHandles(ext) ==
    IF ext = ".m4a"
    THEN {Handle(NoTags, <<>>)} \cup
         {Handle(EmptyTags, <<>>)} \cup
         {StoreTag(Handle(EmptyTags, <<>>), "covr", [i \in 1..n |-> Mp4CoverPicture]) :
            n \in 1..MaxPics}
    ELSE IF ext \in Id3Exts
    THEN {Handle(NoTags, <<>>)} \cup
         {Handle(EmptyTags, PicturesAt(l)) : l \in OldPictureLists}
    ELSE IF ext = ".flac"
    THEN {Handle(t, PicturesAt(l)) : t \in {NoTags, EmptyTags}, l \in OldPictureLists}
    ELSE {Handle(EmptyTags, PicturesAt(l)) : l \in OldPictureLists}

\* The files a directory entry may be.
StoredFiles ==
    {File(".txt", FALSE, NoneAudio)} \cup
    UNION {{File(ext, FALSE, NoneAudio)} \cup {File(ext, TRUE, h) : h \in StoredHandles(ext)} :
             ext \in SUPPORTED_EXTENSIONS}

\* audio.tags.add(APIC(...)): the tag keys its APIC frames by description; a
\* frame whose description is taken gets a blank appended to it until it is
\* free, and is added beside the frames the tag holds.
RECURSIVE Id3AddPicture(_, _)
Id3AddPicture(a, pic) ==
    IF \E i \in DOMAIN a.pictures : a.pictures[i].desc = pic.desc
    THEN Id3AddPicture(a, [pic EXCEPT !.desc.blanks = @ + 1])
    ELSE [a EXCEPT !.pictures = Append(a.pictures, pic)]

\* The pictures a written file holds: an ID3 tag and a FLAC file keep their
\* pictures with the tags; SaveTo writes both.
SaveCover(f, a, ext) ==
    IF ext = ".flac" THEN [f EXCEPT !.audio = a] ELSE SaveTo(f, a)

\* The body of the embedding loop for one file: the exception it raises
\* ("none" when it raises none), the handle as it leaves it, and whether it
\* called audio.save().
EmbedCover(a, ext) ==
    LET raised(e) == [exc |-> e, audio |-> a, save |-> FALSE]
        done(h) == [exc |-> "none", audio |-> h, save |-> TRUE]
    IN
    IF ext = ".mp3" THEN
        \* hasattr(None, 'tags') is false: None.add_tags()
        IF a.isNone THEN raised("AttributeError")
        ELSE done(Id3AddPicture(IF a.tags.present THEN a ELSE AddTags(a), CoverPicture))
    ELSE IF ext = ".flac" THEN
        IF a.isNone THEN raised("AttributeError")
        ELSE done([a EXCEPT !.pictures = <<CoverPicture>>])
    ELSE IF ext = ".m4a" THEN
        IF a.isNone THEN raised("AttributeError")
        ELSE IF ~a.tags.present THEN raised("TypeError")
        ELSE done(StoreTag(a, "covr", <<Mp4CoverPicture>>))
    ELSE IF ext \in {".ogg", ".opus", ".wma"} THEN
        \* these handles have no clear_pictures method
        raised("AttributeError")
    ELSE [exc |-> "none", audio |-> a, save |-> FALSE]

InitCover ==
    /\ disk \in [1..CoverDirSize -> StoredFiles]
    /\ audio_files = find_audio_files(disk)
    /\ audio_files # <<>>
    /\ selected_tags = <<"cover">>
    /\ global_values = <<>>
    /\ per_file_tags = <<>>
    /\ pc = "cover_confirm"
    /\ idx = 0
    /\ tagIdx = 0
    /\ audio = NoneAudio
    /\ modified = FALSE
    /\ stats = [processed |-> 0, skipped |-> 0, failed |-> 0]
    /\ exc = "none"
    /\ last = NoLast
    /\ hist = [n \in DOMAIN disk |-> NoHist]

\* "Use this cover? [y]es / [s]kip".
CoverConfirm(confirm) ==
    /\ pc = "cover_confirm"
    /\ pc' = IF confirm = "s" THEN "cover_done" ELSE "cover_embed"
    /\ idx' = 1
    /\ last' = [NoLast EXCEPT !.op = "confirm"]
    /\ UNCHANGED <<disk, audio_files, selected_tags, global_values, per_file_tags,
                   tagIdx, audio, modified, stats, exc, hist>>

\* One iteration of "for fpath in audio_files".  saveOk: whether audio.save()
\* can write the file.
CoverEmbedFile(saveOk) ==
    /\ pc = "cover_embed"
    /\ idx <= Len(audio_files)
    /\ LET n == audio_files[idx]
           ext == disk[n].ext
           a == load_audio_file(disk[n])
           r == EmbedCover(a, ext)
       IN
          /\ last' = [op |-> "embed", tag |-> ext, value |-> <<>>, ret |-> ~a.isNone,
                      got |-> None]
          /\ IF r.exc # "none"
             THEN /\ pc' = "crashed" /\ exc' = r.exc
                  /\ audio' = r.audio
                  /\ UNCHANGED <<disk, idx, hist>>
             ELSE IF r.save /\ ~saveOk
             THEN /\ pc' = "crashed" /\ exc' = "OSError"
                  /\ audio' = r.audio
                  /\ UNCHANGED <<disk, idx, hist>>
             ELSE /\ audio' = r.audio
                  /\ disk' = IF r.save THEN [disk EXCEPT ![n] = SaveCover(disk[n], r.audio, ext)]
                             ELSE disk
                  /\ hist' = [hist EXCEPT ![n].outcome =
                                IF r.save THEN "embedded" ELSE "passed"]
                  /\ idx' = idx + 1
                  /\ UNCHANGED <<pc, exc>>
    /\ UNCHANGED <<audio_files, selected_tags, global_values, per_file_tags, tagIdx,
                   modified, stats>>

\* The loop is over: "Album cover embedded into N file(s)."
CoverFinish ==
    /\ pc = "cover_embed"
    /\ idx > Len(audio_files)
    /\ pc' = "cover_done"
    /\ last' = [NoLast EXCEPT !.op = "finish"]
    /\ UNCHANGED <<disk, audio_files, selected_tags, global_values, per_file_tags,
                   idx, tagIdx, audio, modified, stats, exc, hist>>

NextCover ==
    \/ \E confirm \in {"y", "s"} : CoverConfirm(confirm)
    \/ \E saveOk \in BOOLEAN : CoverEmbedFile(saveOk)
    \/ CoverFinish

SpecCover == InitCover /\ [][NextCover]_vars

---------------------------------------------------------------------------
(* Spec: one pass of main_loop over a directory. *)

\* The files with a supported extension a directory entry may be: an .mp3,
\* an .m4a and a .flac that hold no tag, and a file the library cannot parse.
BatchFiles ==
    {File(".mp3", TRUE, Handle(NoTags, <<>>)),
     File(".flac", TRUE, Handle(NoTags, <<>>)),
     File(".m4a", TRUE, Handle(NoTags, <<>>)),
     File(".m4a", TRUE, Handle(EmptyTags, <<>>)),
     File(".mp3", FALSE, NoneAudio)}

\* The entry that is no audio file; its name sorts before the others.
OtherFile == File(".txt", FALSE, NoneAudio)

\* The directories: entry 0 is the other file, entries 1..DirSize are audio
\* files.
Directories ==
    {[n \in 0..DirSize |-> IF n = 0 THEN OtherFile ELSE d[n]] :
        d \in [1..DirSize -> BatchFiles]}

\* What the user enters at "Your selection": menu numbers (2 artist, 5 title,
\* 8 tracknumber; 11 is no menu entry).
MenuChoices == {<<2>>, <<2, 5>>, <<8, 5>>, <<11, 5, 8>>}

\* The answers to "[g]lobal / [i]ndividual / [s]kip" and "New ... value".
Answers ==
    {[choice |-> "g", new_val |-> v] : v \in Typed} \cup
    {[choice |-> c, new_val |-> <<>>] : c \in {"i", "s"}}

\* selected_tags = [AVAILABLE_TAGS[c] for c in choices if c in AVAILABLE_TAGS].
RECURSIVE SelectTags(_)
SelectTags(choices) ==
    IF choices = <<>> THEN <<>>
    ELSE (IF Head(choices) \in DOMAIN AVAILABLE_TAGS
          THEN <<AVAILABLE_TAGS[Head(choices)]>> ELSE <<>>)
         \o SelectTags(Tail(choices))

\* setup_menu's loop over selected_tags: the global values and the per-file
\* tags, given the user's answer for each global tag.
RECURSIVE SetupLoop(_, _, _, _)
SetupLoop(tags, ans, gv, pft) ==
    IF tags = <<>> THEN [global_values |-> gv, per_file_tags |-> pft]
    ELSE LET tag == Head(tags) rest == Tail(tags) IN
         IF tag = "cover" THEN SetupLoop(rest, ans, gv, pft)
         ELSE IF tag \in GLOBAL_TAGS THEN
             IF ans[tag].choice = "g" THEN
                 IF ans[tag].new_val # <<>>
                 THEN SetupLoop(rest, ans, Append(gv, <<tag, ans[tag].new_val>>), pft)
                 ELSE SetupLoop(rest, ans, gv, pft)
             ELSE IF ans[tag].choice = "i" THEN SetupLoop(rest, ans, gv, Append(pft, tag))
             ELSE SetupLoop(rest, ans, gv, pft)
         ELSE SetupLoop(rest, ans, gv, Append(pft, tag))

ZeroStats == [processed |-> 0, skipped |-> 0, failed |-> 0]

\* Apply global_values to a handle: "for tag, val in global_values.items()".
RECURSIVE ApplyGlobal(_, _, _)
ApplyGlobal(a, gv, ext) ==
    IF gv = <<>> THEN a
    ELSE ApplyGlobal(set_tag_value(a, gv[1][1], gv[1][2], ext).audio, Tail(gv), ext)

\* "modified = True" under "if new_val:"; the result of set_tag_value is
\* not looked at.
PromptModified_OnlyIfSet(mod, new_val, ret) == IF new_val # <<>> THEN ret ELSE mod

PromptModified(mod, new_val, ret) == IF new_val # <<>> THEN TRUE ELSE mod

ActionOutcome_QuitSkips(action) ==
    IF action \in {<<"q">>, <<"s">>} THEN "skip" ELSE "edit"

\* "Action:" at the per-file prompt: q breaks the loop, s skips the file, and
\* anything else goes on to the tag prompts.
ActionOutcome(action) ==
    IF action = <<"q">> THEN "quit" ELSE IF action = <<"s">> THEN "skip" ELSE "edit"

FinishStats_AlwaysProcessed(st, mod) == [st EXCEPT !.processed = @ + 1]

\* The counters after the tag prompts of a file whose handle was saved (or
\* needed no save).
FinishStats(st, mod) ==
    IF mod THEN [st EXCEPT !.processed = @ + 1] ELSE [st EXCEPT !.skipped = @ + 1]

Init ==
    /\ disk \in Directories
    /\ audio_files = <<>>
    /\ selected_tags = <<>>
    /\ global_values = <<>>
    /\ per_file_tags = <<>>
    /\ pc = "directory"
    /\ idx = 0
    /\ tagIdx = 0
    /\ audio = NoneAudio
    /\ modified = FALSE
    /\ stats = ZeroStats
    /\ exc = "none"
    /\ last = NoLast
    /\ hist = [n \in 0..DirSize |-> NoHist]

\* main_loop, a directory entered: find_audio_files, and back to the prompt
\* (here: the end of the pass) when it finds none.
FindFiles ==
    /\ pc = "directory"
    /\ audio_files' = find_audio_files(disk)
    /\ pc' = IF audio_files' = <<>> THEN "done" ELSE "setup"
    /\ last' = [NoLast EXCEPT !.op = "find"]
    /\ UNCHANGED <<disk, selected_tags, global_values, per_file_tags, idx, tagIdx,
                   audio, modified, stats, exc, hist>>

\* Where edit_audio_files goes once the global values are applied (or there
\* are none): the per-file loop, or "No per-file edits required. Done."
AfterGlobal(pft) == IF pft = <<>> THEN "done" ELSE "load"

\* setup_menu, then the entry of edit_audio_files.  A selection with no valid
\* number is asked for again.
SetupMenu(choices, ans) ==
    /\ pc = "setup"
    /\ SelectTags(choices) # <<>>
    /\ LET r == SetupLoop(SelectTags(choices), ans, <<>>, <<>>) IN
          /\ selected_tags' = SelectTags(choices)
          /\ global_values' = r.global_values
          /\ per_file_tags' = r.per_file_tags
          /\ pc' = IF r.global_values # <<>> THEN "global" ELSE AfterGlobal(r.per_file_tags)
    /\ idx' = 1
    /\ last' = [NoLast EXCEPT !.op = "setup"]
    /\ UNCHANGED <<disk, audio_files, tagIdx, audio, modified, stats, exc, hist>>

\* One iteration of "for filepath in audio_files" of the global pass.
\* saveOk: whether audio.save() can write the file.
GlobalFile(saveOk) ==
    /\ pc = "global"
    /\ idx <= Len(audio_files)
    /\ LET n == audio_files[idx]
           a == load_audio_file(disk[n])
           h == ApplyGlobal(a, global_values, disk[n].ext)
       IN
          /\ last' = [NoLast EXCEPT !.op = "global", !.ret = ~a.isNone]
          /\ IF a.isNone
             THEN /\ audio' = a
                  /\ idx' = idx + 1
                  /\ UNCHANGED <<disk, pc, exc>>
             ELSE IF h.tags.present /\ ~saveOk
             THEN /\ audio' = h
                  /\ pc' = "crashed" /\ exc' = "OSError"
                  /\ UNCHANGED <<disk, idx>>
             ELSE /\ audio' = h
                  /\ disk' = [disk EXCEPT ![n] = SaveTo(disk[n], h)]
                  /\ idx' = idx + 1
                  /\ UNCHANGED <<pc, exc>>
    /\ UNCHANGED <<audio_files, selected_tags, global_values, per_file_tags, tagIdx,
                   modified, stats, hist>>

\* The global pass is over.
GlobalEnd ==
    /\ pc = "global"
    /\ idx > Len(audio_files)
    /\ pc' = AfterGlobal(per_file_tags)
    /\ idx' = 1
    /\ last' = [NoLast EXCEPT !.op = "global_end"]
    /\ UNCHANGED <<disk, audio_files, selected_tags, global_values, per_file_tags,
                   tagIdx, audio, modified, stats, exc, hist>>

\* The head of an iteration of the per-file loop: load_audio_file.
LoadFile ==
    /\ pc = "load"
    /\ idx <= Len(audio_files)
    /\ LET n == audio_files[idx]
           a == load_audio_file(disk[n])
       IN
          /\ audio' = a
          /\ last' = [NoLast EXCEPT !.op = "load", !.ret = ~a.isNone]
          /\ IF a.isNone
             THEN /\ stats' = [stats EXCEPT !.failed = @ + 1]
                  /\ hist' = [hist EXCEPT ![n].outcome = "failed"]
                  /\ idx' = idx + 1
                  /\ UNCHANGED pc
             ELSE /\ pc' = "action"
                  /\ UNCHANGED <<stats, hist, idx>>
    /\ UNCHANGED <<disk, audio_files, selected_tags, global_values, per_file_tags,
                   tagIdx, modified, exc>>

\* "Options: [Enter] to edit | [s] skip | [q] quit".
FileAction(action) ==
    /\ pc = "action"
    /\ LET n == audio_files[idx]
           o == ActionOutcome(action)
       IN
          /\ last' = [NoLast EXCEPT !.op = "action", !.value = action]
          /\ IF o = "quit"
             THEN /\ pc' = "done"
                  /\ UNCHANGED <<stats, hist, idx, modified, tagIdx>>
             ELSE IF o = "skip"
             THEN /\ stats' = [stats EXCEPT !.skipped = @ + 1]
                  /\ hist' = [hist EXCEPT ![n].outcome = "skipped"]
                  /\ idx' = idx + 1
                  /\ pc' = "load"
                  /\ UNCHANGED <<modified, tagIdx>>
             ELSE /\ modified' = FALSE
                  /\ tagIdx' = 1
                  /\ pc' = "prompt"
                  /\ UNCHANGED <<stats, hist, idx>>
    /\ UNCHANGED <<disk, audio_files, selected_tags, global_values, per_file_tags,
                   audio, exc>>

\* One iteration of "for tag in per_file_tags": the prompt for a new value.
PromptTag(new_val) ==
    /\ pc = "prompt"
    /\ tagIdx <= Len(per_file_tags)
    /\ LET n == audio_files[idx]
           tag == per_file_tags[tagIdx]
           r == set_tag_value(audio, tag, new_val, disk[n].ext)
       IN
          IF new_val # <<>>
          THEN /\ audio' = r.audio
               /\ modified' = PromptModified(modified, new_val, r.ret)
               /\ last' = [NoLast EXCEPT !.op = "prompt", !.tag = tag,
                                         !.value = new_val, !.ret = r.ret]
               /\ hist' = [hist EXCEPT ![n].typed = Append(@, new_val),
                                       ![n].rets = Append(@, IF r.ret THEN "set" ELSE "failed")]
          ELSE /\ last' = [NoLast EXCEPT !.op = "prompt", !.tag = tag]
               /\ hist' = [hist EXCEPT ![n].typed = Append(@, new_val),
                                       ![n].rets = Append(@, "blank")]
               /\ UNCHANGED <<audio, modified>>
    /\ tagIdx' = tagIdx + 1
    /\ UNCHANGED <<disk, audio_files, selected_tags, global_values, per_file_tags,
                   pc, idx, stats, exc>>

\* The tail of an iteration of the per-file loop: save and count.
FinishFile(saveOk) ==
    /\ pc = "prompt"
    /\ tagIdx > Len(per_file_tags)
    /\ LET n == audio_files[idx] IN
          /\ last' = [NoLast EXCEPT !.op = "finish", !.ret = modified]
          /\ IF modified /\ audio.tags.present /\ ~saveOk
             THEN /\ pc' = "crashed" /\ exc' = "OSError"
                  /\ hist' = [hist EXCEPT ![n].outcome = "save_raised"]
                  /\ UNCHANGED <<disk, stats, idx>>
             ELSE /\ disk' = IF modified THEN [disk EXCEPT ![n] = SaveTo(disk[n], audio)]
                             ELSE disk
                  /\ stats' = FinishStats(stats, modified)
                  /\ hist' = [hist EXCEPT ![n].outcome =
                                IF modified THEN "saved" ELSE "skipped"]
                  /\ idx' = idx + 1
                  /\ pc' = "load"
                  /\ UNCHANGED exc
    /\ UNCHANGED <<audio_files, selected_tags, global_values, per_file_tags, tagIdx,
                   audio, modified>>

\* The per-file loop is over: the batch summary.
LoopEnd ==
    /\ pc = "load"
    /\ idx > Len(audio_files)
    /\ pc' = "done"
    /\ last' = [NoLast EXCEPT !.op = "summary"]
    /\ UNCHANGED <<disk, audio_files, selected_tags, global_values, per_file_tags,
                   idx, tagIdx, audio, modified, stats, exc, hist>>

\* Ctrl-C at a prompt: input() raises KeyboardInterrupt, which the main guard
\* catches: "Exiting...", sys.exit(0).
Interrupt ==
    /\ pc \in {"setup", "action", "prompt"}
    /\ pc' = "exited"
    /\ exc' = "KeyboardInterrupt"
    /\ last' = [NoLast EXCEPT !.op = "interrupt"]
    /\ UNCHANGED <<disk, audio_files, selected_tags, global_values, per_file_tags,
                   idx, tagIdx, audio, modified, stats, hist>>

Next ==
    \/ FindFiles
    \/ \E choices \in MenuChoices :
          \E ans \in [{t \in GLOBAL_TAGS : \E i \in DOMAIN choices :
                          choices[i] \in DOMAIN AVAILABLE_TAGS
                          /\ AVAILABLE_TAGS[choices[i]] = t} -> Answers] :
             SetupMenu(choices, ans)
    \/ \E saveOk \in BOOLEAN : GlobalFile(saveOk)
    \/ GlobalEnd
    \/ LoadFile
    \/ \E action \in {<<"q">>, <<"s">>, <<>>} : FileAction(action)
    \/ \E new_val \in Typed : PromptTag(new_val)
    \/ \E saveOk \in BOOLEAN : FinishFile(saveOk)
    \/ LoopEnd
    \/ Interrupt

Spec == Init /\ [][Next]_vars

---------------------------------------------------------------------------
(* Properties of the tag translator, checked under SpecTag. *)

TagExt == disk[TagFile].ext

SetStep == last'.op = "set" /\ idx' = idx + 1

\* The handle is as load_audio_file returned it for the untagged file.
FreshHandle == pc = "tag" /\ audio = disk[TagFile].audio /\ audio.tags.map = EmptyMap

\* C1: after set_tag_value(handle, tag, v) for a canonical tag other than
\* cover, tracknumber and discnumber, on a handle of any container kind,
\* get_tag_value(handle, tag) on the same handle returns exactly v.
C1_RoundTrip ==
    (pc = "tag" /\ last.op = "set" /\ last.tag \notin {"cover"} \cup NumericTags)
        => get_tag_value(audio, last.tag, TagExt).value = last.value

\* C6: on an .m4a handle, set_tag_value of tracknumber or discnumber with a
\* value that is no integer returns False and leaves the handle, the tag's
\* prior value and every other tag included, as it was before the call.
C6_InvalidNumericMp4 ==
    [][(SetStep /\ TagExt = ".m4a" /\ last'.tag \in NumericTags
            /\ ~IsIntLiteral(last'.value))
        => (last'.ret = FALSE /\ audio' = audio)]_vars

\* C6's case: a track number was stored, and a later set of it with a value
\* that is no integer was refused.
C6_Witness ==
    /\ pc = "tag" /\ TagExt = ".m4a"
    /\ last.op = "set" /\ last.tag = "tracknumber" /\ ~IsIntLiteral(last.value)
    /\ last.ret = FALSE
    /\ "trkn" \in DOMAIN audio.tags.map
    /\ audio.tags.map["trkn"] = <<(<<7, 0>>)>>

\* C7: on a freshly loaded handle with no prior tags get_tag_value returns
\* None for every canonical tag and every container kind, and a call leaves
\* the handle as it was: no tag container is created, no tag is stored.
C7_ReadNoSideEffect ==
    [][FreshHandle =>
          /\ \A tag \in CanonicalTags :
                get_tag_value(audio, tag, TagExt).value = None
          /\ (last'.op = "get" => (last'.got = None /\ audio' = audio))]_vars

\* C7's case: a get was made on an .mp3 handle whose tags are None, and they
\* still are.
C7_Witness ==
    /\ pc = "tag" /\ TagExt = ".mp3"
    /\ last.op = "get" /\ last.got = None
    /\ FreshHandle /\ ~audio.tags.present

---------------------------------------------------------------------------
(* Properties of the cover embedding loop, checked under SpecCover. *)

\* The pictures a handle of the given kind holds.
PicturesOf(a, ext) ==
    IF ext = ".m4a"
    THEN IF "covr" \in DOMAIN a.tags.map THEN a.tags.map["covr"] ELSE <<>>
    ELSE a.pictures

\* C2: once the embedding step has run on a file, its handle holds exactly one
\* picture, the front cover (type 3, image/jpeg, "Cover"; for mp4, whose covers
\* carry no type or description, one JPEG cover), whatever pictures it held.
C2_OnePicture ==
    (pc = "cover_embed" /\ last.op = "embed"
        /\ hist[audio_files[idx - 1]].outcome = "embedded")
        => PicturesOf(audio, last.tag) =
              <<IF last.tag = ".m4a" THEN Mp4CoverPicture ELSE CoverPicture>>

\* C5 (cover pass): when load_audio_file returns None for a file of the list,
\* the pass raises nothing and goes on.
C5_LoadFailureNotFatal ==
    (last.op = "embed" /\ last.ret = FALSE) => (pc # "crashed" /\ exc = "none")

---------------------------------------------------------------------------
(* Properties of the batch pass, checked under Spec. *)

\* The file the per-file loop is at.
CurrentFile == audio_files[idx]

\* The per-file loop ran to its end.
LoopCompleted == pc = "done" /\ last.op = "summary"

\* The file as a new load and get_tag_value would report it.
Reported(n, tag) == get_tag_value(load_audio_file(disk[n]), tag, disk[n].ext).value

\* C3: in a directory of one .mp3 and one .m4a that hold no tag (and a .txt
\* file), with artist and title selected, artist set globally to G and a title
\* typed for each file, once edit_audio_files has completed both files report
\* artist G and the title typed for them, and the .txt file was never listed
\* or touched.
C3_EndToEnd ==
    (/\ LoopCompleted
     /\ audio_files = <<1, 2>>
     /\ disk[1].ext = ".mp3" /\ disk[1].ok
     /\ disk[2].ext = ".m4a" /\ disk[2].ok
     /\ selected_tags = <<"artist", "title">>
     /\ Len(global_values) = 1 /\ global_values[1][1] = "artist"
     /\ per_file_tags = <<"title">>
     /\ \A n \in {1, 2} : Len(hist[n].typed) = 1 /\ hist[n].typed[1] # <<>>
     /\ hist[1].typed # hist[2].typed)
    => (/\ \A n \in {1, 2} :
              /\ Reported(n, "artist") = global_values[1][2]
              /\ Reported(n, "title") = hist[n].typed[1]
        /\ hist[0] = NoHist)

\* C4: a failure of audio.save() does not end the run; only KeyboardInterrupt
\* ends it before the loops are through.
C4_SaveFailureContained ==
    (pc \in {"crashed", "exited"}) => exc = "KeyboardInterrupt"

QuitTyped == last.op = "action" /\ last.value = <<"q">>

\* C8: "q" is taken as quit only at the action prompt, before any tag of the
\* current file is prompted for: at the quit the handle is as it was loaded,
\* nothing was typed for the file, the loop is over and neither this file nor
\* a later one of the list was counted, modified or saved by the per-file loop.
\* A "q" typed at a tag prompt is a tag value, and the file goes on.
C8_QuitAtFileBoundary ==
    /\ QuitTyped =>
          /\ pc = "done" /\ exc = "none"
          /\ audio = load_audio_file(disk[CurrentFile])
          /\ \A i \in idx..Len(audio_files) : hist[audio_files[i]] = NoHist
    /\ (last.op = "prompt" /\ last.value = <<"q">>) =>
          (pc = "prompt" /\ hist[CurrentFile].typed # <<>>)

\* C8's case: the first file was edited and saved, and the user quit at the
\* second.
C8_Witness ==
    /\ QuitTyped /\ idx = 2
    /\ hist[audio_files[1]].outcome = "saved"
    /\ hist[audio_files[1]].typed # <<>>

\* The file the last FinishFile step was about.
FinishedFile == IF pc = "crashed" THEN audio_files[idx] ELSE audio_files[idx - 1]

SomeSet(n) == \E i \in DOMAIN hist[n].rets : hist[n].rets[i] = "set"

\* C9: when set_tag_value returns False for a tag, the prompt loop goes on
\* with the next tag on the same handle; at its end every per-file tag was
\* prompted for, and audio.save() is called on a file one of whose tags was
\* set: the file then holds what the handle holds, unless save itself raised.
C9_TagFailurePerTag ==
    /\ (last.op = "prompt" /\ last.value # <<>> /\ ~last.ret) =>
          /\ pc = "prompt" /\ exc = "none"
          /\ tagIdx = Len(hist[CurrentFile].typed) + 1
          /\ hist[CurrentFile].outcome = "none"
    /\ (last.op = "finish") =>
          /\ Len(hist[FinishedFile].typed) = Len(per_file_tags)
          /\ SomeSet(FinishedFile) =>
                /\ hist[FinishedFile].outcome \in {"saved", "save_raised"}
                /\ hist[FinishedFile].outcome = "saved" =>
                      disk[FinishedFile].audio = audio

\* C9's case: a tag of the file was refused, a later one was set, and the
\* file was saved.
C9_Witness ==
    /\ last.op = "finish" /\ pc = "load"
    /\ hist[FinishedFile].rets = <<"failed", "set">>
    /\ hist[FinishedFile].outcome = "saved"
    /\ disk[FinishedFile].audio.tags.map # EmptyMap

Counted(outcome) ==
    Cardinality({i \in DOMAIN audio_files : hist[audio_files[i]].outcome = outcome})

\* C10: the counters count the files the per-file loop is through with, each
\* in one counter: processed the files it saved, skipped the files it left,
\* failed the files it could not load.  At an iteration boundary they add up
\* to the number of files before the current one, and to len(audio_files) when
\* the loop ran to its end.
C10_CountersPartition ==
    /\ stats.processed = Counted("saved")
    /\ stats.skipped = Counted("skipped")
    /\ stats.failed = Counted("failed")
    /\ pc \in {"load", "action", "prompt"} =>
          /\ stats.processed + stats.skipped + stats.failed = idx - 1
          /\ \A i \in DOMAIN audio_files :
                (hist[audio_files[i]].outcome # "none") <=> i < idx
    /\ LoopCompleted =>
          stats.processed + stats.skipped + stats.failed = Len(audio_files)

\* C10's case: the loop ran to its end over a file that could not be loaded
\* and a file that was saved.
C10_Witness ==
    /\ LoopCompleted
    /\ stats.failed = 1 /\ stats.processed = 1 /\ stats.skipped = 0

====
